---- MODULE Spec2Model ----
(***************************************************************************)
(* The text chunking subsystem: the strategy-based TextChunker of          *)
(* GREEN_PROJECT/src/document_pipeline/text_chunker.py and the span-       *)
(* tracking TextChunker of assetmanager/src/document_pipeline/             *)
(* text_chunking.py.  A text is a sequence of one-character strings; a     *)
(* Python list is a sequence; a dict is a record.  The loops of the four   *)
(* splitting strategies run one iteration per step.                        *)
(***************************************************************************)
EXTENDS Integers, Sequences, FiniteSets, TLC

\* ------------------------------------------------------------- bounds
\* Longest text over the full alphabet, largest chunk_size tried with it.
MaxLen == 4
MaxSize == 3
\* Longest text made of words and single characters of whitespace, and the
\* largest chunk_size tried with the token strategy on it.
MaxWordsLen == 9
MaxTokSize == 6
\* Longest text with which the metadata argument is varied.
MaxMetaLen == 3
\* Longest hand-built chunk list given to merge_small_chunks, and the longest
\* chunk text in it.
MaxChunks == 3
MaxChunkLen == 2

\* ----------------------------------------------------------- characters
SP == " "
NL == "\n"
Whitespace == {SP, NL}
Punct == {".", "!", "?"}
Chars == {"a", ".", SP, NL}
WordChars == {"a", SP}

Strings(A, n) == UNION {[1..k -> A] : k \in 0..n}

Min2(a, b) == IF a < b THEN a ELSE b
Max2(a, b) == IF a > b THEN a ELSE b
SetMin(S) == CHOOSE m \in S : \A k \in S : m <= k
SetMax(S) == CHOOSE m \in S : \A k \in S : m >= k

\* An Optional[...] argument: None, or a value.
None == [some |-> FALSE, v |-> <<>>]
Some(x) == [some |-> TRUE, v |-> x]
\* Python truthiness of an Optional[str] / Optional[dict]: None, "" and {}
\* are falsy.
Truthy(o) == o.some /\ DOMAIN o.v # {}

\* ------------------------------------------------------ str operations
\* s[a:b] with Python's 0-based, end-exclusive, clamped indices.
NormIndex(k, n) == IF k < 0 THEN Max2(k + n, 0) ELSE Min2(k, n)
Slice(s, a, b) ==
    LET lo == NormIndex(a, Len(s))
        hi == NormIndex(b, Len(s))
    IN  IF lo < hi THEN SubSeq(s, lo + 1, hi) ELSE <<>>

\* s.strip()
Strip(s) ==
    LET keep == {k \in 1..Len(s) : s[k] \notin Whitespace}
    IN  IF keep = {} THEN <<>> ELSE SubSeq(s, SetMin(keep), SetMax(keep))

\* s.split(): the maximal runs of non-whitespace, in order.
RECURSIVE SplitWords(_)
SplitWords(s) ==
    LET keep == {k \in 1..Len(s) : s[k] \notin Whitespace}
    IN  IF keep = {} THEN <<>>
        ELSE LET b == SetMin(keep)
                 stops == {k \in b..Len(s) : s[k] \in Whitespace}
                 e == IF stops = {} THEN Len(s) + 1 ELSE SetMin(stops)
             IN  <<SubSeq(s, b, e - 1)>> \o SplitWords(SubSeq(s, e, Len(s)))

\* sep.join(list)
RECURSIVE Join(_, _)
Join(sep, list) ==
    IF list = <<>> THEN <<>>
    ELSE IF Len(list) = 1 THEN list[1]
    ELSE list[1] \o sep \o Join(sep, Tail(list))

\* s.rfind(c, start, end): the highest 0-based index in [start, end) holding
\* c, or -1.
RFind(s, c, start, end) ==
    LET hits == {k \in start..(Min2(end, Len(s)) - 1) : k >= 0 /\ s[k + 1] = c}
    IN  IF hits = {} THEN -1 ELSE SetMax(hits)

\* The characters of s that are not whitespace, in order.
RECURSIVE NonWhitespace(_)
NonWhitespace(s) ==
    IF s = <<>> THEN <<>>
    ELSE (IF s[1] \in Whitespace THEN <<>> ELSE <<s[1]>>) \o NonWhitespace(Tail(s))

\* The concatenation of a list of strings.
RECURSIVE Concat(_)
Concat(list) == IF list = <<>> THEN <<>> ELSE list[1] \o Concat(Tail(list))

\* ------------------------------------------------------- re operations
\* The last index (1-based) of the leftmost-greedy match of r'\n\s*\n' that
\* begins at index p, or 0 when none begins there: a newline, then the longest
\* run of whitespace that still ends in a newline.
ParagraphBreakEnd(s, p) ==
    IF s[p] # NL THEN 0
    ELSE LET solid == {k \in (p + 1)..Len(s) : s[k] \notin Whitespace}
             runEnd == IF solid = {} THEN Len(s) ELSE SetMin(solid) - 1
             nls == {k \in (p + 1)..runEnd : s[k] = NL}
         IN  IF nls = {} THEN 0 ELSE SetMax(nls)

\* The same for r'(?<=[.!?])\s+': whitespace right after a terminator, then
\* all the whitespace that follows.
SentenceBreakEnd(s, p) ==
    IF p = 1 \/ s[p] \notin Whitespace THEN 0
    ELSE IF s[p - 1] \notin Punct THEN 0
    ELSE LET solid == {k \in (p + 1)..Len(s) : s[k] \notin Whitespace}
         IN  IF solid = {} THEN Len(s) ELSE SetMin(solid) - 1

BreakEnd(kind, s, p) ==
    IF kind = "paragraph" THEN ParagraphBreakEnd(s, p) ELSE SentenceBreakEnd(s, p)

\* re.split(pattern, s): the pieces between the matches, scanning from index p
\* with the current piece starting at index `from`.
RECURSIVE ReSplitFrom(_, _, _, _)
ReSplitFrom(kind, s, p, from) ==
    LET matches == {k \in p..Len(s) : BreakEnd(kind, s, k) > 0}
    IN  IF matches = {} THEN <<SubSeq(s, from, Len(s))>>
        ELSE LET m == SetMin(matches)
                 q == BreakEnd(kind, s, m)
             IN  <<SubSeq(s, from, m - 1)>> \o ReSplitFrom(kind, s, q + 1, q + 1)

ReSplit(kind, s) == ReSplitFrom(kind, s, 1, 1)

\* [p.strip() for p in pieces if p.strip()]
RECURSIVE StripAll(_)
StripAll(pieces) ==
    IF pieces = <<>> THEN <<>>
    ELSE (IF Strip(pieces[1]) = <<>> THEN <<>> ELSE <<Strip(pieces[1])>>)
         \o StripAll(Tail(pieces))

\* --------------------------------------------------------------- state
VARIABLES
    pc,             \* where the caller is: new, rejected, ready, a loop, done, raised,
                    \* extracted, context, client, retrying, returned, failed
    impl,           \* which class: TextChunker "strategy" or "span", or "vertex"
    self,           \* the chunker's attributes, set by __init__
    error,          \* the exception raised, "" when none
    text,           \* chunk_text's text argument (Optional)
    metadata,       \* chunk_text's metadata argument (Optional)
    todo,           \* the paragraphs / sentences the for loop has still to visit
    current_chunk,  \* the running chunk of the packing loops
    start,          \* _chunk_by_fixed_size's start
    i,              \* _chunk_by_token's i
    current_start,  \* the span chunker's offset of current_chunk in the text
    chunk_index,    \* the span chunker's index of the running chunk
    chunks,         \* the chunk list under construction
    windows,        \* history: [start, end, emitted] of every window-loop iteration
    result,         \* the list chunk_text returned
    heap,           \* the metadata dicts held by chunks, by reference (index)
    merge_chunks,   \* merge_small_chunks' chunks argument
    min_chunk_size, \* merge_small_chunks' min_chunk_size argument
    merged_chunks,  \* the list merge_small_chunks returned
    first_merged,   \* history: the first merge's return value, as it then read
    mpc,            \* where the caller of merge_small_chunks is: idle, merged, raised, again
    merge_error,    \* the exception merge_small_chunks raised, "" when none
    extract_chunks, \* extract_metadata_from_chunks' chunks argument, as the caller reads it
    consolidated,   \* the mapping extract_metadata_from_chunks returned
    ctx_chunks,     \* get_chunk_with_context's chunks argument, as it reads after the call
    ctx_index,      \* get_chunk_with_context's chunk_index argument
    context_window, \* get_chunk_with_context's context_window argument
    context,        \* the dict get_chunk_with_context returned
    client,         \* the VertexAIClient's retry configuration
    retry_args,     \* the arguments _retry_api_call was given for func
    attempt,        \* _retry_api_call's loop variable
    last_exception, \* _retry_api_call's local of that name
    calls,          \* every invocation of func: the arguments and what came of it
    sleeps,         \* every time.sleep: the delay it was called with
    outcome         \* how _retry_api_call ended: a return value or an exception

vars == <<pc, impl, self, error, text, metadata, todo, current_chunk,
          start, i, current_start, chunk_index, chunks, windows, result,
          heap, merge_chunks, min_chunk_size, merged_chunks, first_merged,
          mpc, merge_error, extract_chunks, consolidated,
          ctx_chunks, ctx_index, context_window, context,
          client, retry_args, attempt, last_exception, calls, sleeps, outcome>>
locals == <<todo, current_chunk, start, i, current_start, chunk_index, chunks, windows>>
args == <<text, metadata>>
mergev == <<merge_chunks, min_chunk_size, merged_chunks, first_merged, mpc, merge_error>>
aux == <<extract_chunks, consolidated>>
ctxv == <<ctx_chunks, ctx_index, context_window, context>>
retryv == <<client, retry_args, attempt, last_exception, calls, sleeps, outcome>>

Init ==
    /\ pc = "new"
    /\ impl = "strategy"
    /\ self = [chunk_size |-> 0, chunk_overlap |-> 0, chunk_strategy |-> ""]
    /\ error = ""
    /\ text = None
    /\ metadata = None
    /\ todo = <<>>
    /\ current_chunk = <<>>
    /\ start = 0
    /\ i = 0
    /\ current_start = 0
    /\ chunk_index = 0
    /\ chunks = <<>>
    /\ windows = <<>>
    /\ result = <<>>
    /\ heap = <<>>
    /\ merge_chunks = <<>>
    /\ min_chunk_size = 0
    /\ merged_chunks = <<>>
    /\ first_merged = <<>>
    /\ mpc = "idle"
    /\ merge_error = ""
    /\ extract_chunks = <<>>
    /\ consolidated = <<>>
    /\ ctx_chunks = <<>>
    /\ ctx_index = 0
    /\ context_window = 0
    /\ context = [text |-> <<>>, metadata |-> <<>>]
    /\ client = [max_retries |-> 3, initial_retry_delay |-> 1,
                 retry_multiplier |-> 2, max_retry_delay |-> 60]
    /\ retry_args = ""
    /\ attempt = 0
    /\ last_exception = None
    /\ calls = <<>>
    /\ sleeps = <<>>
    /\ outcome = [kind |-> "none", v |-> ""]

\* ------------------------------------------------- TextChunker.__init__
valid_strategies == {"paragraph", "sentence", "fixed", "token"}

\* The checks of __init__, in order; "" when all pass.
ValidationErrorMut1(chunk_size, chunk_overlap, chunk_strategy) ==
    IF chunk_strategy \notin valid_strategies THEN "ValueError"
    ELSE IF chunk_size <= 0 THEN "ValueError"
    ELSE IF chunk_overlap < 0 THEN "ValueError"
    ELSE IF chunk_overlap > chunk_size THEN "ValueError"
    ELSE ""

ValidationError(chunk_size, chunk_overlap, chunk_strategy) ==
    IF chunk_strategy \notin valid_strategies THEN "ValueError"
    ELSE IF chunk_size <= 0 THEN "ValueError"
    ELSE IF chunk_overlap < 0 THEN "ValueError"
    ELSE IF chunk_overlap >= chunk_size THEN "ValueError"
    ELSE ""

\* The constructor arguments tried: every combination of a small size, a small
\* overlap (legal or not) and a strategy name (known or not); the token
\* strategy without overlap and sizes up to MaxTokSize; chunk_size = 100 with the fixed
\* strategy and chunk_overlap 0 or 20, and with the paragraph strategy and no
\* overlap.
Configs ==
    [chunk_size : 0..MaxSize, chunk_overlap : -1..MaxSize,
     chunk_strategy : valid_strategies \cup {"semantic"}]
    \cup [chunk_size : 1..MaxTokSize, chunk_overlap : {0}, chunk_strategy : {"token"}]
    \cup [chunk_size : {100}, chunk_overlap : {0, 20}, chunk_strategy : {"fixed"}]
    \cup [chunk_size : {100}, chunk_overlap : {0}, chunk_strategy : {"paragraph"}]

Construct ==
    /\ pc = "new"
    /\ \E c \in Configs :
          /\ self' = c
          /\ error' = ValidationError(c.chunk_size, c.chunk_overlap, c.chunk_strategy)
          /\ pc' = IF error' = "" THEN "ready" ELSE "rejected"
    /\ impl' = "strategy"
    /\ UNCHANGED <<args, locals, result, heap, mergev, aux, ctxv, retryv>>

\* ------------------------------------------------ TextChunker.chunk_text
\* The texts tried with every chunker: None and every string over Chars up to
\* MaxLen.
ShortTexts == {None} \cup {Some(s) : s \in Strings(Chars, MaxLen)}

\* The texts tried with a strategy chunker: the short ones, with the token
\* strategy and no overlap every string of words up to MaxWordsLen, and with
\* chunk_size = 100 the text of 250 non-whitespace characters for the fixed
\* strategy and ThreeParagraphs for the paragraph strategy.
ThreeParagraphs ==
    LET p == [k \in 1..40 |-> "a"] IN Join(<<NL, NL>>, <<p, p, p>>)

Texts ==
    ShortTexts
    \cup (IF self.chunk_strategy = "token" /\ self.chunk_overlap = 0
          THEN {Some(s) : s \in Strings(WordChars, MaxWordsLen)} ELSE {})
    \cup (IF self.chunk_size = 100 /\ self.chunk_strategy = "fixed"
          THEN {Some([k \in 1..250 |-> "a"])} ELSE {})
    \cup (IF self.chunk_size = 100 /\ self.chunk_strategy = "paragraph"
          THEN {Some(ThreeParagraphs)} ELSE {})

\* The metadata tried with text t: None, {} and a mapping on the short texts.
Metadatas(t) ==
    IF Len(t.v) <= MaxMetaLen THEN {None, Some(<<>>), Some([source |-> "doc"])}
    ELSE {None}

\* `if not text`
IsEmptyInputMut1(t) == t.some /\ t.v = <<>>

IsEmptyInput(t) == ~Truthy(t)

\* Lines 87-104: wrap the strategy's chunk strings.  A chunk's "metadata" entry
\* is a reference into `heap`: chunk k holds the dict WrapHeap makes for it.
WrapMut1(list, md) ==
    [k \in 1..Len(list) |->
        IF Truthy(md)
        THEN [text |-> list[k], chunk_index |-> k, total_chunks |-> Len(list),
              metadata |-> k]
        ELSE [text |-> list[k], chunk_index |-> k, total_chunks |-> Len(list)]]

Wrap(list, md) ==
    [k \in 1..Len(list) |->
        IF Truthy(md)
        THEN [text |-> list[k], chunk_index |-> k - 1, total_chunks |-> Len(list),
              metadata |-> k]
        ELSE [text |-> list[k], chunk_index |-> k - 1, total_chunks |-> Len(list)]]

\* Lines 97-99: `{**metadata}`, a fresh copy of the caller's mapping per chunk.
WrapHeap(list, md) ==
    IF Truthy(md) THEN [k \in 1..Len(list) |-> md.v] ELSE <<>>

\* --------------------------------------------------- _chunk_by_fixed_size
\* Lines 211-218: the end of the window that starts at `s`.
WindowEndMut1(t, chunk_size, s) ==
    LET text_length == Len(t)
        end == Min2(s + chunk_size + 1, text_length)
    IN  IF end < text_length /\ t[end + 1] \notin Whitespace
        THEN LET last_space == RFind(t, SP, s, end)
             IN  IF last_space > s THEN last_space ELSE end
        ELSE end

WindowEnd(t, chunk_size, s) ==
    LET text_length == Len(t)
        end == Min2(s + chunk_size, text_length)
    IN  IF end < text_length /\ t[end + 1] \notin Whitespace
        THEN LET last_space == RFind(t, SP, s, end)
             IN  IF last_space > s THEN last_space ELSE end
        ELSE end

\* Lines 226-230: the start of the next window.
NextStartMut1(chunk_overlap, end) == end

NextStartMut2(chunk_overlap, end) ==
    LET s == IF chunk_overlap > 0 THEN end - chunk_overlap - 1 ELSE end
    IN  IF s <= 0 \/ s >= end THEN end ELSE s

NextStart(chunk_overlap, end) ==
    LET s == IF chunk_overlap > 0 THEN end - chunk_overlap ELSE end
    IN  IF s <= 0 \/ s >= end THEN end ELSE s

Visited == {windows[k].start : k \in 1..Len(windows)}

\* ------------------------------- _chunk_by_paragraph, _chunk_by_sentence
\* Lines 117-118 and 162-163: the stripped, non-empty units.
Paragraphs(t) == StripAll(ReSplit("paragraph", t))
Sentences(t) == StripAll(ReSplit("sentence", t))

\* Lines 125 / 170: the running chunk is closed before `unit` is added.
ClosesMut1(current, unit, chunk_size) ==
    Len(current) + Len(unit) >= chunk_size /\ current # <<>>

ClosesMut2(current, unit, chunk_size) ==
    Len(current) > chunk_size /\ current # <<>>

Closes(current, unit, chunk_size) ==
    Len(current) + Len(unit) > chunk_size /\ current # <<>>

\* Lines 129-136 / 174-181: what the next chunk starts with after `closed`.
OverlapSeed(closed, chunk_overlap) ==
    IF chunk_overlap > 0 /\ closed # <<>>
    THEN LET ws == SplitWords(closed)
             overlap_word_count == Min2(Len(ws), chunk_overlap \div 5)
         IN  Join(<<SP>>, Slice(ws, -overlap_word_count, Len(ws)))
    ELSE <<>>

\* Lines 139-142 / 184-187: `unit` added to the running chunk.
AddUnitMut1(current, sep, unit) == unit

AddUnit(current, sep, unit) ==
    IF current # <<>> THEN current \o sep \o unit ELSE unit

\* One iteration of the packing loop with separator `sep`.
PackStep(sep) ==
    /\ todo # <<>>
    /\ LET unit == Head(todo)
           closing == Closes(current_chunk, unit, self.chunk_size)
           base == IF closing THEN OverlapSeed(current_chunk, self.chunk_overlap)
                   ELSE current_chunk
       IN  /\ chunks' = IF closing THEN Append(chunks, current_chunk) ELSE chunks
           /\ current_chunk' = AddUnit(base, sep, unit)
    /\ todo' = Tail(todo)
    /\ UNCHANGED <<pc, impl, self, error, args, start, i, current_start, chunk_index, windows, result, heap, mergev, aux, ctxv, retryv>>

\* The end of the packing loop: the last chunk, then lines 87-104.
PackReturn ==
    /\ todo = <<>>
    /\ chunks' = IF current_chunk # <<>> THEN Append(chunks, current_chunk) ELSE chunks
    /\ result' = Wrap(chunks', metadata)
    /\ heap' = WrapHeap(chunks', metadata)
    /\ pc' = "done"
    /\ UNCHANGED <<impl, self, error, args, todo, current_chunk, start, i, current_start, chunk_index, windows, mergev, aux, ctxv, retryv>>

ParagraphStep == pc = "paragraph" /\ PackStep(<<NL, NL>>)
ParagraphReturn == pc = "paragraph" /\ PackReturn
SentenceStep == pc = "sentence" /\ PackStep(<<SP>>)
SentenceReturn == pc = "sentence" /\ PackReturn

\* ---------------------------------------------------------- _chunk_by_token
\* int(budget / avg_word_length) with avg_word_length = len(text) /
\* max(len(words), 1).  Python divides in double precision; for the texts and
\* budgets this model draws the result equals the exact quotient below.
BudgetInWords(budget, t) ==
    (budget * Max2(Len(SplitWords(t)), 1)) \div Len(t)

WordsPerChunk(t, chunk_size) == Max2(1, BudgetInWords(chunk_size, t))
OverlapWords(t, chunk_overlap) == Max2(0, BudgetInWords(chunk_overlap, t))

\* Lines 268-272: the index of the next word window.
NextIndex(overlap_words, end) ==
    LET n == IF overlap_words > 0 THEN end - overlap_words ELSE end
    IN  IF n <= 0 \/ n >= end THEN end ELSE n

ChunkText ==
    /\ pc = "ready"
    /\ impl = "strategy"
    /\ mpc = "idle"
    /\ \E t \in Texts : \E md \in Metadatas(t) :
          /\ text' = t
          /\ metadata' = md
          /\ IF IsEmptyInput(t)
             THEN /\ pc' = "done"
                  /\ UNCHANGED <<error, locals>>
             ELSE IF ~t.some
             THEN \* re.split / len / .split applied to None
                  /\ pc' = "raised"
                  /\ error' = "TypeError"
                  /\ UNCHANGED locals
             ELSE /\ pc' = self.chunk_strategy
                  /\ todo' = IF self.chunk_strategy = "paragraph" THEN Paragraphs(t.v)
                             ELSE IF self.chunk_strategy = "sentence" THEN Sentences(t.v)
                             ELSE <<>>
                  /\ UNCHANGED <<error, current_chunk, start, i, current_start, chunk_index, chunks, windows>>
    /\ result' = <<>>
    /\ UNCHANGED <<impl, self, heap, mergev, aux, ctxv, retryv>>

\* One iteration of the while loop.  The body reads only `start` and the
\* arguments, so from a start it has had before the loop repeats itself for
\* ever; the model stops unrolling it there.
FixedStep ==
    /\ pc = "fixed"
    /\ start < Len(text.v)
    /\ start \notin Visited
    /\ LET end == WindowEnd(text.v, self.chunk_size, start)
           chunk == Strip(Slice(text.v, start, end))
       IN  /\ chunks' = IF chunk # <<>> THEN Append(chunks, chunk) ELSE chunks
           /\ windows' = Append(windows, [start |-> start, end |-> end,
                                          emitted |-> chunk # <<>>])
           /\ start' = NextStart(self.chunk_overlap, end)
    /\ UNCHANGED <<pc, impl, self, error, args, todo, current_chunk, i, current_start, chunk_index, result, heap, mergev, aux, ctxv, retryv>>

FixedReturn ==
    /\ pc = "fixed"
    /\ start >= Len(text.v)
    /\ result' = Wrap(chunks, metadata)
    /\ heap' = WrapHeap(chunks, metadata)
    /\ pc' = "done"
    /\ UNCHANGED <<impl, self, error, args, locals, mergev, aux, ctxv, retryv>>

\* One iteration of the while loop; as in FixedStep, the loop is not unrolled
\* past an index i it has had before.
TokenStep ==
    /\ pc = "token"
    /\ LET ws == SplitWords(text.v)
           words_per_chunk == WordsPerChunk(text.v, self.chunk_size)
           overlap_words == OverlapWords(text.v, self.chunk_overlap)
           end == Min2(i + words_per_chunk, Len(ws))
       IN  /\ i < Len(ws)
           /\ i \notin Visited
           /\ chunks' = Append(chunks, Join(<<SP>>, Slice(ws, i, end)))
           /\ windows' = Append(windows, [start |-> i, end |-> end, emitted |-> TRUE])
           /\ i' = NextIndex(overlap_words, end)
    /\ UNCHANGED <<pc, impl, self, error, args, todo, current_chunk, start, current_start, chunk_index, result, heap, mergev, aux, ctxv, retryv>>

TokenReturn ==
    /\ pc = "token"
    /\ i >= Len(SplitWords(text.v))
    /\ result' = Wrap(chunks, metadata)
    /\ heap' = WrapHeap(chunks, metadata)
    /\ pc' = "done"
    /\ UNCHANGED <<impl, self, error, args, locals, mergev, aux, ctxv, retryv>>

\* ------------------------------------------------------ merge_small_chunks
\* `"metadata" in chunk`
HasMetadata(chunk) == "metadata" \in DOMAIN chunk

\* A chunk list as a caller reads it: every metadata reference replaced by the
\* dict it points to.
View(list, h) ==
    [k \in 1..Len(list) |->
        IF HasMetadata(list[k]) THEN [list[k] EXCEPT !.metadata = h[@]] ELSE list[k]]

\* Lines 295-298, reached only past the `if not chunks` return of lines 291-292.
MergeError(list, m, chunk_size) ==
    IF list = <<>> THEN ""
    ELSE IF m <= 0 THEN "ValueError"
    ELSE IF m > chunk_size THEN "ValueError"
    ELSE ""

\* Line 309: the accumulator takes the next chunk in.
AbsorbsMut1(current, m) == Len(current.text) <= m

Absorbs(current, m) == Len(current.text) < m

\* Line 311: the accumulator's text after it took `chunk_text` in.
AbsorbedMut1(current_text, chunk_text) == current_text \o chunk_text

Absorbed(current_text, chunk_text) == current_text \o <<NL>> \o chunk_text

\* Lines 314-318: the accumulator's dict is tagged in place.  chunk.copy() is
\* shallow, so that dict is the one the run's first input chunk holds.
Tagged(current, chunk) == HasMetadata(current) /\ HasMetadata(chunk)

TagMut1(md, absorbed_index) ==
    ("merged" :> TRUE) @@ ("merged_with" :> absorbed_index + 1) @@ md

Tag(md, absorbed_index) ==
    ("merged" :> TRUE) @@ ("merged_with" :> absorbed_index) @@ md

\* Lines 325-326: the last accumulator is flushed.
FinalFlushMut1(out, current) == out

FinalFlush(out, current) == Append(out, current)

\* Lines 303-326: the for loop from input chunk k on, with accumulator
\* `current`, flushed chunks `out` and heap `h`.
RECURSIVE MergeLoop(_, _, _, _, _, _)
MergeLoop(list, m, k, current, out, h) ==
    IF k > Len(list) THEN [out |-> FinalFlush(out, current), heap |-> h]
    ELSE LET chunk == list[k]
         IN  IF Absorbs(current, m)
             THEN MergeLoop(list, m, k + 1,
                            [current EXCEPT !.text = Absorbed(@, chunk.text)], out,
                            IF Tagged(current, chunk)
                            THEN [h EXCEPT ![current.metadata] = Tag(@, chunk.chunk_index)]
                            ELSE h)
             ELSE MergeLoop(list, m, k + 1, chunk, Append(out, current), h)

\* Lines 329-331.
Renumber(out) ==
    [j \in 1..Len(out) |->
        [out[j] EXCEPT !.chunk_index = j - 1, !.total_chunks = Len(out)]]

\* The value returned and the heap left behind, for arguments that pass
\* lines 291-298.
MergeSmallChunksMut1(list, m, h) ==
    IF list = <<>> THEN [out |-> <<>>, heap |-> h]
    ELSE LET r == MergeLoop(list, m, 1, list[1], <<>>, h)
         IN  [out |-> Renumber(r.out), heap |-> r.heap]

MergeSmallChunks(list, m, h) ==
    IF list = <<>> THEN [out |-> <<>>, heap |-> h]
    ELSE LET r == MergeLoop(list, m, 2, list[1], <<>>, h)
         IN  [out |-> Renumber(r.out), heap |-> r.heap]

\* Chunk lists a caller builds by hand: up to MaxChunks chunks of 1..MaxChunkLen
\* characters, each with or without a metadata dict of its own; with
\* chunk_size = 100 also chunks of 10, 10, 80 and 5 characters.
ChunkLengths ==
    UNION {[1..n -> 1..MaxChunkLen] : n \in 0..MaxChunks}
    \cup (IF self.chunk_size = 100 THEN {<<10, 10, 80, 5>>} ELSE {})

Built(lens, has) ==
    [k \in 1..Len(lens) |->
        IF has[k]
        THEN [text |-> [j \in 1..lens[k] |-> "a"], chunk_index |-> k - 1,
              total_chunks |-> Len(lens), metadata |-> k]
        ELSE [text |-> [j \in 1..lens[k] |-> "a"], chunk_index |-> k - 1,
              total_chunks |-> Len(lens)]]

HandBuilt ==
    {[chunks |-> Built(lens, has), heap |-> [k \in 1..Len(lens) |-> [source |-> "doc"]]] :
        <<lens, has>> \in UNION {{l} \X [1..Len(l) -> BOOLEAN] : l \in ChunkLengths}}

\* The chunk lists merge_small_chunks is called with: what chunk_text returned
\* for a text up to MaxMetaLen, or, on a fresh paragraph chunker without
\* overlap, a hand-built list.
MergeInputs ==
    IF pc = "done" /\ Len(text.v) <= MaxMetaLen
    THEN {[chunks |-> result, heap |-> heap]}
    ELSE IF pc = "ready" /\ self.chunk_strategy = "paragraph" /\ self.chunk_overlap = 0
    THEN HandBuilt
    ELSE {}

\* The min_chunk_size values tried: legal or not.
MinSizes ==
    IF self.chunk_size <= MaxSize THEN 0..(self.chunk_size + 1)
    ELSE {0, 50, self.chunk_size, self.chunk_size + 1}

\* One call merge_small_chunks(list, m) on heap h; `label` is where the caller
\* stands when it returns.
MergeCall(list, h, m, label) ==
    /\ merge_chunks' = list
    /\ min_chunk_size' = m
    /\ merge_error' = MergeError(list, m, self.chunk_size)
    /\ IF merge_error' = ""
       THEN LET r == MergeSmallChunks(list, m, h)
            IN  /\ merged_chunks' = r.out
                /\ heap' = r.heap
                /\ mpc' = label
       ELSE /\ merged_chunks' = <<>>
            /\ heap' = h
            /\ mpc' = "raised"

MergeSmall ==
    /\ impl = "strategy"
    /\ mpc = "idle"
    /\ \E in \in MergeInputs : \E m \in MinSizes :
          MergeCall(in.chunks, in.heap, m, "merged")
    /\ first_merged' = View(merged_chunks', heap')
    /\ UNCHANGED <<pc, impl, self, error, args, locals, result, aux, ctxv, retryv>>

\* merge_small_chunks called again on what it returned, with the same
\* min_chunk_size.
MergeAgain ==
    /\ mpc = "merged"
    /\ MergeCall(merged_chunks, heap, min_chunk_size, "again")
    /\ UNCHANGED <<pc, impl, self, error, args, locals, result, first_merged, aux, ctxv, retryv>>

\* ------------------------------------------- extract_metadata_from_chunks
MaxExtractChunks == 3

\* Line 358: the chunk-specific keys that are skipped.
SkippedKeys == {"chunk_index", "total_chunks", "merged", "merged_with"}

\* `value in consolidated[key]`
InList(value, list) == \E k \in 1..Len(list) : list[k] = value

\* Lines 357-369 for one item of a chunk's metadata.  A consolidated value is
\* kept with what isinstance(..., list) says of it.
ConsolidateMut1(cons, key, value) ==
    IF key \in SkippedKeys THEN cons
    ELSE IF key \in DOMAIN cons
    THEN IF cons[key].islist
         THEN [cons EXCEPT ![key].v = Append(@, value)]
         ELSE IF cons[key].v # value
              THEN [cons EXCEPT ![key] = [islist |-> TRUE, v |-> <<@.v, value>>]]
              ELSE cons
    ELSE (key :> [islist |-> FALSE, v |-> value]) @@ cons

Consolidate(cons, key, value) ==
    IF key \in SkippedKeys THEN cons
    ELSE IF key \in DOMAIN cons
    THEN IF cons[key].islist
         THEN IF ~InList(value, cons[key].v)
              THEN [cons EXCEPT ![key].v = Append(@, value)]
              ELSE cons
         ELSE IF cons[key].v # value
              THEN [cons EXCEPT ![key] = [islist |-> TRUE, v |-> <<@.v, value>>]]
              ELSE cons
    ELSE (key :> [islist |-> FALSE, v |-> value]) @@ cons

\* Line 356: the items of one metadata dict.  Items of different keys touch
\* different entries, so the order they are taken in does not matter.
RECURSIVE ConsolidateItems(_, _, _)
ConsolidateItems(cons, md, keys) ==
    IF keys = {} THEN cons
    ELSE LET key == CHOOSE x \in keys : TRUE
         IN  ConsolidateItems(Consolidate(cons, key, md[key]), md, keys \ {key})

\* Lines 349-371, on a chunk list as the caller reads it.
RECURSIVE ExtractMetadataFromChunks(_, _, _)
ExtractMetadataFromChunks(list, k, cons) ==
    IF k > Len(list) THEN cons
    ELSE ExtractMetadataFromChunks(list, k + 1,
             IF HasMetadata(list[k])
             THEN ConsolidateItems(cons, list[k].metadata, DOMAIN list[k].metadata)
             ELSE cons)

\* The metadata dicts tried: a source or none, a page or none, a merged mark
\* or none.
MetadataDicts ==
    {[key \in keys |-> IF key = "source" THEN src
                       ELSE IF key = "page" THEN "1" ELSE TRUE] :
        <<keys, src>> \in (SUBSET {"source", "page", "merged"}) \X {"doc", "web", "pdf"}}

\* The chunks tried: without metadata or with one of MetadataDicts.
ExtractChunks ==
    {[text |-> <<"a">>, chunk_index |-> 0, total_chunks |-> 1]}
    \cup {[text |-> <<"a">>, chunk_index |-> 0, total_chunks |-> 1, metadata |-> md] :
            md \in MetadataDicts}

\* extract_metadata_from_chunks reads no attribute of the chunker; it is
\* called on one chunker, with lists of up to MaxExtractChunks chunks.
ExtractMetadata ==
    /\ pc = "ready"
    /\ impl = "strategy"
    /\ mpc = "idle"
    /\ self = [chunk_size |-> 1, chunk_overlap |-> 0, chunk_strategy |-> "paragraph"]
    /\ \E n \in 0..MaxExtractChunks : \E list \in [1..n -> ExtractChunks] :
          /\ extract_chunks' = list
          /\ consolidated' = ExtractMetadataFromChunks(list, 1, <<>>)
    /\ pc' = "extracted"
    /\ UNCHANGED <<impl, self, error, args, locals, result, heap, mergev, ctxv, retryv>>

\* ------------------------------------------- the span-tracking TextChunker
\* __init__ stores its arguments unchecked.  The configurations tried are the
\* ones with 0 <= chunk_overlap < chunk_size.
SpanConfigs ==
    {c \in [chunk_size : 1..MaxSize, chunk_overlap : 0..MaxSize,
            respect_semantic_boundaries : BOOLEAN] : c.chunk_overlap < c.chunk_size}

SpanConstruct ==
    /\ pc = "new"
    /\ \E c \in SpanConfigs : self' = c
    /\ impl' = "span"
    /\ pc' = "ready"
    /\ UNCHANGED <<error, args, locals, result, heap, mergev, aux, ctxv, retryv>>

\* _split_paragraphs: re.split(r'(\n\s*\n)', s) and each piece put back before
\* its separator; the pieces concatenate to s, and the last one may be "".
RECURSIVE SplitParagraphsFrom(_, _, _)
SplitParagraphsFrom(s, p, from) ==
    IF p > Len(s) THEN <<SubSeq(s, from, Len(s))>>
    ELSE LET q == ParagraphBreakEnd(s, p)
         IN  IF q > 0
             THEN <<SubSeq(s, from, q)>> \o SplitParagraphsFrom(s, q + 1, q + 1)
             ELSE SplitParagraphsFrom(s, p + 1, from)

SplitParagraphs(s) == SplitParagraphsFrom(s, 1, 1)

\* _find_last_sentence_boundary: the end of the last match of
\* r'[.!?](?:\s|$)' in s, 0 when there is none.
FindLastSentenceBoundary(s) ==
    LET ends == {k \in 1..Len(s) :
                    /\ s[k] \in Punct
                    /\ (k = Len(s) \/ s[k + 1] \in Whitespace)}
    IN  IF ends = {} THEN 0
        ELSE LET k == SetMax(ends) IN IF k = Len(s) THEN k ELSE k + 1

\* Lines 73-82: where the next chunk starts inside the closed one.
OverlapPointMut1(closed, chunk_overlap, respect) ==
    Len(closed) - Min2(chunk_overlap, Len(closed)) + 1

OverlapPoint(closed, chunk_overlap, respect) ==
    IF respect
    THEN LET overlap_text == IF chunk_overlap < Len(closed)
                             THEN Slice(closed, -chunk_overlap, Len(closed))
                             ELSE closed
             sentence_boundary == FindLastSentenceBoundary(overlap_text)
         IN  IF sentence_boundary > 0
             THEN Len(closed) - (Len(overlap_text) - sentence_boundary)
             ELSE Max2(0, Len(closed) - chunk_overlap)
    ELSE Max2(0, Len(closed) - chunk_overlap)

SpanChunk(txt, index, from) ==
    [text |-> txt,
     metadata |-> [chunk_index |-> index, start_char |-> from,
                   end_char |-> from + Len(txt)]]

SpanChunkText ==
    /\ pc = "ready"
    /\ impl = "span"
    /\ \E t \in ShortTexts :
          /\ text' = t
          /\ IF IsEmptyInput(t)
             THEN /\ pc' = "done"
                  /\ UNCHANGED <<error, locals>>
             ELSE IF ~t.some
             THEN \* re.split applied to None
                  /\ pc' = "raised"
                  /\ error' = "TypeError"
                  /\ UNCHANGED locals
             ELSE /\ pc' = "span"
                  /\ todo' = SplitParagraphs(t.v)
                  /\ UNCHANGED <<error, current_chunk, start, i, current_start,
                                 chunk_index, chunks, windows>>
    /\ result' = <<>>
    /\ UNCHANGED <<impl, self, metadata, heap, mergev, aux, ctxv, retryv>>

SpanStep ==
    /\ pc = "span"
    /\ todo # <<>>
    /\ LET para == Head(todo)
           closing == Closes(current_chunk, para, self.chunk_size)
           overlap_point == OverlapPoint(current_chunk, self.chunk_overlap,
                                         self.respect_semantic_boundaries)
       IN  IF closing
           THEN /\ chunks' = Append(chunks,
                                    SpanChunk(current_chunk, chunk_index, current_start))
                /\ current_chunk' =
                      Slice(current_chunk, overlap_point, Len(current_chunk)) \o para
                /\ current_start' = current_start + overlap_point
                /\ chunk_index' = chunk_index + 1
           ELSE /\ current_chunk' = current_chunk \o para
                /\ UNCHANGED <<chunks, current_start, chunk_index>>
    /\ todo' = Tail(todo)
    /\ UNCHANGED <<pc, impl, self, error, args, start, i, windows, result, heap, mergev, aux, ctxv, retryv>>

SpanReturn ==
    /\ pc = "span"
    /\ todo = <<>>
    /\ chunks' = IF current_chunk # <<>>
                 THEN Append(chunks, SpanChunk(current_chunk, chunk_index, current_start))
                 ELSE chunks
    /\ result' = chunks'
    /\ pc' = "done"
    /\ UNCHANGED <<impl, self, error, args, todo, current_chunk, start, i,
                   current_start, chunk_index, windows, heap, mergev, aux, ctxv, retryv>>

\* ---------------------------------------------- get_chunk_with_context
MaxCtxChunks == 3
MaxWindow == 2

\* The marker literals of lines 174 and 179.
ContextBeforeOpen ==
    <<"[", "C", "O", "N", "T", "E", "X", "T", "_", "B", "E", "F", "O", "R",
      "E", "]", SP>>

ContextBeforeClose ==
    <<SP, "[", "/", "C", "O", "N", "T", "E", "X", "T", "_", "B", "E", "F",
      "O", "R", "E", "]", NL, NL>>

ContextAfterOpen ==
    <<NL, NL, "[", "C", "O", "N", "T", "E", "X", "T", "_", "A", "F", "T",
      "E", "R", "]", SP>>

ContextAfterClose ==
    <<SP, "[", "/", "C", "O", "N", "T", "E", "X", "T", "_", "A", "F", "T",
      "E", "R", "]">>

\* Line 157: the call is refused.
InvalidIndex(list, index) == list = <<>> \/ index < 0 \/ index >= Len(list)

\* list(range(a, b)) and the texts of those chunks (indices are 0-based).
RangeMut1(a, b) == [k \in 1..Max2(0, b - a) |-> b - k]

Range(a, b) == [k \in 1..Max2(0, b - a) |-> a + k - 1]
TextsAt(list, indices) == [k \in 1..Len(indices) |-> list[indices[k] + 1].text]

\* Lines 161-190, for a valid index.
ContextAround(list, index, window) ==
    LET target_chunk == list[index + 1]
        start_idx == Max2(0, index - window)
        end_idx == Min2(Len(list) - 1, index + window)
        context_before == TextsAt(list, Range(start_idx, index))
        context_after == TextsAt(list, Range(index + 1, end_idx + 1))
        before == IF context_before # <<>>
                  THEN ContextBeforeOpen \o Join(<<SP>>, context_before)
                       \o ContextBeforeClose
                  ELSE <<>>
        after == IF context_after # <<>>
                 THEN ContextAfterOpen \o Join(<<SP>>, context_after)
                      \o ContextAfterClose
                 ELSE <<>>
    IN  [text |-> before \o target_chunk.text \o after,
         metadata |->
            [has_context |-> context_before # <<>> \/ context_after # <<>>,
             context_window |-> window,
             context_chunks_before |->
                 IF start_idx < index THEN Range(start_idx, index) ELSE <<>>,
             context_chunks_after |->
                 IF index < end_idx THEN Range(index + 1, end_idx + 1) ELSE <<>>]
            @@ target_chunk.metadata]

\* Line 159: what a refused call returns.
EmptyChunk == [text |-> <<>>, metadata |-> <<>>]

\* Lines 157-190: the value get_chunk_with_context returns.
ChunkWithContextMut1(list, index, window) ==
    IF list = <<>> THEN EmptyChunk
    ELSE ContextAround(list, Max2(0, Min2(Len(list) - 1, index)), window)

ChunkWithContext(list, index, window) ==
    IF InvalidIndex(list, index) THEN EmptyChunk
    ELSE ContextAround(list, index, window)

\* Chunk lists a caller builds by hand: up to MaxCtxChunks one-character
\* chunks laid end to end.
CtxHandBuilt ==
    UNION {{[k \in 1..n |-> SpanChunk(<<c[k]>>, k - 1, k - 1)] : c \in [1..n -> {"a", "."}]} :
              n \in 0..MaxCtxChunks}

\* The chunk lists get_chunk_with_context is called with: what chunk_text
\* returned for a text up to MaxMetaLen, or, on one fresh chunker (the method
\* reads no attribute), a hand-built list.
CtxInputs ==
    IF pc = "done" /\ Len(text.v) <= MaxMetaLen THEN {result}
    ELSE IF pc = "ready" /\ self = [chunk_size |-> 1, chunk_overlap |-> 0,
                                    respect_semantic_boundaries |-> TRUE]
    THEN CtxHandBuilt
    ELSE {}

GetChunkWithContext ==
    /\ impl = "span"
    /\ \E list \in CtxInputs : \E index \in -1..Len(list) : \E window \in 0..MaxWindow :
          /\ ctx_chunks' = list
          /\ ctx_index' = index
          /\ context_window' = window
          /\ context' = ChunkWithContext(list, index, window)
    /\ pc' = "context"
    /\ UNCHANGED <<impl, self, error, args, locals, result, heap, mergev, aux, retryv>>

\* ------------------------------------------------------- VertexAIClient
MaxRetries == 3
MaxDelay == 2
MaxMultiplier == 2
MaxCap == 3

\* The retry configurations (lines 64-67, stored as given): max_retries
\* from -1 up, delays in whole seconds from 0 up, multipliers from 0 up,
\* and the defaults of lines 37-40.
ClientConfigs ==
    [max_retries : -1..MaxRetries, initial_retry_delay : 0..MaxDelay,
     retry_multiplier : 0..MaxMultiplier, max_retry_delay : 0..MaxCap]
    \cup {[max_retries |-> 3, initial_retry_delay |-> 1,
           retry_multiplier |-> 2, max_retry_delay |-> 60]}

VertexConstruct ==
    /\ pc = "new"
    /\ \E c \in ClientConfigs : client' = c
    /\ impl' = "vertex"
    /\ pc' = "client"
    /\ UNCHANGED <<self, error, args, locals, result, heap, mergev, aux, ctxv,
                   retry_args, attempt, last_exception, calls, sleeps, outcome>>

\* b ** e as Python computes it for e >= 0 (0 ** 0 is 1).
RECURSIVE Pow(_, _)
Pow(b, e) == IF e = 0 THEN 1 ELSE b * Pow(b, e - 1)

\* Lines 94-98.
ExponentialBackoffMut1(c, n) ==
    Min2(c.max_retry_delay, c.initial_retry_delay * Pow(c.retry_multiplier, n + 1))

ExponentialBackoff(c, n) ==
    Min2(c.max_retry_delay, c.initial_retry_delay * Pow(c.retry_multiplier, n))

\* What one invocation of func can do: return a value or raise an exception.
FuncResults ==
    {[ok |-> TRUE, v |-> "success"], [ok |-> FALSE, v |-> "Error 1"],
     [ok |-> FALSE, v |-> "Error 2"]}

\* The arguments a caller passes on for func.
RetryArgs == {"arg1", "arg2"}

\* Lines 115-117: the call is entered.
RetryApiCall ==
    /\ pc = "client"
    /\ \E a \in RetryArgs : retry_args' = a
    /\ attempt' = 0
    /\ last_exception' = None
    /\ calls' = <<>>
    /\ sleeps' = <<>>
    /\ pc' = "retrying"
    /\ UNCHANGED <<impl, self, error, args, locals, result, heap, mergev, aux, ctxv,
                   client, outcome>>

\* Line 124: whether a failed attempt is followed by a sleep.
SleepsAfterMut1(c, n) == n < c.max_retries

SleepsAfter(c, n) == n < c.max_retries - 1

\* Lines 117-129: one pass of the loop. func is invoked; its value is
\* returned at once, or its exception is kept and, unless this was the last
\* attempt, the backoff delay is slept.
RetryAttempt ==
    /\ pc = "retrying"
    /\ attempt < client.max_retries
    /\ \E r \in FuncResults :
          /\ calls' = Append(calls, [args |-> retry_args, ok |-> r.ok, v |-> r.v])
          /\ IF r.ok
             THEN /\ outcome' = [kind |-> "return", v |-> r.v]
                  /\ pc' = "returned"
                  /\ UNCHANGED <<attempt, last_exception, sleeps>>
             ELSE /\ last_exception' = Some(r.v)
                  /\ sleeps' = IF SleepsAfter(client, attempt)
                               THEN Append(sleeps, ExponentialBackoff(client, attempt))
                               ELSE sleeps
                  /\ attempt' = attempt + 1
                  /\ UNCHANGED <<pc, outcome>>
    /\ UNCHANGED <<impl, self, error, args, locals, result, heap, mergev, aux, ctxv,
                   client, retry_args>>

\* Line 131, after the loop has run out: raise last_exception. Raising None
\* is a TypeError of the interpreter's.
Raised(e) == IF e.some THEN e.v ELSE "TypeError"

RetryExhausted ==
    /\ pc = "retrying"
    /\ attempt >= client.max_retries
    /\ outcome' = [kind |-> "raise", v |-> Raised(last_exception)]
    /\ pc' = "failed"
    /\ UNCHANGED <<impl, self, error, args, locals, result, heap, mergev, aux, ctxv,
                   client, retry_args, attempt, last_exception, calls, sleeps>>

Next ==
    \/ Construct
    \/ ChunkText
    \/ ParagraphStep
    \/ ParagraphReturn
    \/ SentenceStep
    \/ SentenceReturn
    \/ FixedStep
    \/ FixedReturn
    \/ TokenStep
    \/ TokenReturn
    \/ MergeSmall
    \/ MergeAgain
    \/ ExtractMetadata
    \/ GetChunkWithContext
    \/ SpanConstruct
    \/ SpanChunkText
    \/ SpanStep
    \/ SpanReturn
    \/ VertexConstruct
    \/ RetryApiCall
    \/ RetryAttempt
    \/ RetryExhausted

Spec == Init /\ [][Next]_vars

\* ------------------------------------------------------------ properties
Called == pc \in {"paragraph", "sentence", "fixed", "token", "span", "done", "raised"}
Strategy(name) == impl = "strategy" /\ Called /\ self.chunk_strategy = name
ResultTexts == [k \in 1..Len(result) |-> result[k].text]
WhitespaceFree(s) == \A k \in 1..Len(s) : s[k] \notin Whitespace

\* C1: the window loop of _chunk_by_fixed_size terminates: while it runs, it
\* never comes back to a window start it has already had (its body depends on
\* `start` alone, so a repeated start is a loop that never ends).
C1_FixedLoopTerminates ==
    (Strategy("fixed") /\ pc = "fixed" /\ start < Len(text.v)) => start \notin Visited

\* C2: the word-window loop of _chunk_by_token terminates: while it runs, it
\* never comes back to a word index i it has already had.
C2_TokenLoopTerminates ==
    (Strategy("token") /\ pc = "token" /\ i < Len(SplitWords(text.v)))
        => i \notin Visited

\* C3: with chunk_overlap = 0, the non-whitespace characters of the returned
\* chunks, concatenated in order, are the non-whitespace characters of the
\* input text, for each of the four strategies.
C3_Reconstruction ==
    (impl = "strategy" /\ pc = "done" /\ self.chunk_overlap = 0)
        => NonWhitespace(Concat(ResultTexts)) = NonWhitespace(text.v)

C3_Witness ==
    /\ impl = "strategy" /\ pc = "done" /\ self.chunk_overlap = 0
    /\ self.chunk_strategy = "paragraph"
    /\ Len(result) >= 2
    /\ ~WhitespaceFree(text.v)

\* C4: every chunk the fixed strategy emits is at most chunk_size long.
C4_FixedBounded ==
    Strategy("fixed") => \A k \in 1..Len(chunks) : Len(chunks[k]) <= self.chunk_size

C4_Witness ==
    /\ Strategy("fixed") /\ pc = "done"
    /\ self.chunk_size >= 2
    /\ Len(text.v) > self.chunk_size
    /\ \E k \in 1..Len(chunks) : Len(chunks[k]) = self.chunk_size

\* C5: every chunk the token strategy emits is at most chunk_size characters
\* long, unless it is a single word longer than chunk_size.
C5_TokenBounded ==
    Strategy("token") =>
        \A k \in 1..Len(chunks) :
            \/ Len(chunks[k]) <= self.chunk_size
            \/ Len(SplitWords(chunks[k])) = 1

\* C6: in the list chunk_text returns, the chunk at position p (counted from
\* 0) has chunk_index = p and total_chunks = len(result).
C6_IndexTotal ==
    (impl = "strategy" /\ pc = "done") =>
        \A k \in 1..Len(result) :
            /\ result[k].chunk_index = k - 1
            /\ result[k].total_chunks = Len(result)

C6_Witness == impl = "strategy" /\ pc = "done" /\ Len(result) >= 2

\* C7: chunk_text called with "" or None returns the empty list and raises
\* nothing, in both chunkers.
C7_EmptyInput ==
    (Called /\ ~Truthy(text)) => (pc = "done" /\ result = <<>> /\ error = "")

C7_Witness == Called /\ impl = "span" /\ ~text.some /\ pc = "done"

\* C8: the strategy chunker is constructed exactly when chunk_size > 0,
\* 0 <= chunk_overlap < chunk_size and the strategy is one of the four; every
\* other combination raises ValueError, so a constructed chunker has
\* chunk_overlap < chunk_size.
LegalConfig(c) ==
    /\ c.chunk_size > 0
    /\ 0 <= c.chunk_overlap /\ c.chunk_overlap < c.chunk_size
    /\ c.chunk_strategy \in {"paragraph", "sentence", "fixed", "token"}

C8_ConstructionIffLegal ==
    (impl = "strategy" /\ pc # "new") =>
        /\ LegalConfig(self) <=> pc # "rejected"
        /\ pc = "rejected" => error = "ValueError"
        /\ pc # "rejected" => (error = "" /\ self.chunk_overlap < self.chunk_size)

C8_Witness ==
    /\ impl = "strategy" /\ pc = "rejected"
    /\ self.chunk_size > 0 /\ self.chunk_overlap = self.chunk_size
    /\ self.chunk_strategy = "fixed"

\* C9, as claimed: with the fixed strategy, chunk_overlap = O > 0 and a text
\* longer than chunk_size, the window of every emitted chunk after the first
\* starts O characters before the end of the window of the chunk emitted
\* before it.
EmittedWindows == SelectSeq(windows, LAMBDA w : w.emitted)

C9_OverlapEveryPair ==
    (Strategy("fixed") /\ self.chunk_overlap > 0 /\ Len(text.v) > self.chunk_size) =>
        \A k \in 1..(Len(EmittedWindows) - 1) :
            EmittedWindows[k + 1].start = EmittedWindows[k].end - self.chunk_overlap

\* C9, amended: each window after the first starts O characters before the
\* end of the window before it when that end lies beyond offset O, and at that
\* end otherwise; on whitespace-free text every window emits its chunk, starts
\* exactly O before the previous end, and the first min(O, len) characters of
\* each chunk are the last characters of the chunk before it.
C9_OverlapUnlessGuarded ==
    (Strategy("fixed") /\ self.chunk_overlap > 0 /\ Len(text.v) > self.chunk_size) =>
        LET O == self.chunk_overlap IN
        /\ \A k \in 1..(Len(windows) - 1) :
              windows[k + 1].start =
                  IF windows[k].end > O THEN windows[k].end - O ELSE windows[k].end
        /\ WhitespaceFree(text.v) =>
              /\ Len(chunks) = Len(windows)
              /\ \A k \in 1..(Len(windows) - 1) :
                    /\ windows[k + 1].start = windows[k].end - O
                    /\ LET m == Min2(O, Len(chunks[k + 1]))
                       IN  SubSeq(chunks[k + 1], 1, m)
                             = SubSeq(chunks[k], Len(chunks[k]) - m + 1, Len(chunks[k]))

C9_Witness ==
    /\ Strategy("fixed") /\ self.chunk_overlap > 0 /\ Len(text.v) > self.chunk_size
    /\ WhitespaceFree(text.v)
    /\ Len(chunks) >= 2
    /\ windows[2].start = windows[1].end - self.chunk_overlap

\* C10, as claimed: chunk_size = 100, chunk_overlap = 20, fixed strategy and a
\* text of 250 non-whitespace characters give exactly 3 chunks, of lengths 100,
\* 100 and 50.
Scenario250 ==
    /\ Strategy("fixed")
    /\ self.chunk_size = 100 /\ self.chunk_overlap = 20
    /\ Len(text.v) = 250 /\ WhitespaceFree(text.v)

Scenario3x40 ==
    /\ Strategy("paragraph")
    /\ self.chunk_size = 100 /\ self.chunk_overlap = 0
    /\ text = Some(ThreeParagraphs)

Units ==
    IF self.chunk_strategy = "paragraph" THEN Paragraphs(text.v) ELSE Sentences(text.v)

PackingWithoutOverlap ==
    /\ impl = "strategy" /\ Called /\ Truthy(text)
    /\ self.chunk_strategy \in {"paragraph", "sentence"}
    /\ self.chunk_overlap = 0

C12_OversizedUnitAlone ==
    PackingWithoutOverlap =>
        /\ pc # "raised"
        /\ pc \in {"paragraph", "sentence"} =>
              LET n == Len(Units) - Len(todo)
              IN  (n >= 1 /\ Len(Units[n]) > self.chunk_size) => current_chunk = Units[n]
        /\ pc = "done" =>
              \A j \in 1..Len(Units) :
                  Len(Units[j]) > self.chunk_size
                      => \E k \in 1..Len(result) : result[k].text = Units[j]

C12_Witness ==
    /\ PackingWithoutOverlap /\ pc = "done"
    /\ Len(Units) = 2
    /\ Len(Units[1]) > self.chunk_size
    /\ Len(Units[2]) <= self.chunk_size
    /\ Len(result) = 2
    /\ result[1].text = Units[1]

\* C13: with chunk_overlap > 0, when the paragraph or sentence loop closes a
\* chunk, the next chunk starts from that chunk's last
\* min(word count, chunk_overlap // 5) words, joined by single spaces, so from
\* at most chunk_overlap // 5 words, whatever the legal chunk_overlap is.
C13_SeedAtMostFifthOfOverlap ==
    [][(/\ impl = "strategy" /\ pc \in {"paragraph", "sentence"} /\ pc' = pc
        /\ self.chunk_overlap > 0
        /\ chunks' = Append(chunks, current_chunk))
       => LET ws == SplitWords(current_chunk)
              n == Min2(Len(ws), self.chunk_overlap \div 5)
              tail == Join(<<SP>>, SubSeq(ws, Len(ws) - n + 1, Len(ws)))
              sep == IF pc = "paragraph" THEN <<NL, NL>> ELSE <<SP>>
          IN  /\ Len(SplitWords(tail)) <= self.chunk_overlap \div 5
              /\ current_chunk' = IF tail = <<>> THEN Head(todo)
                                  ELSE tail \o sep \o Head(todo)]_vars

\* C14: the token strategy on a non-empty text made of whitespace only does not
\* raise and returns exactly one chunk, whose text is the whole input.
C14_WhitespaceOnlyTokenOneChunk ==
    (Strategy("token") /\ Truthy(text) /\ SplitWords(text.v) = <<>>)
        => /\ pc # "raised"
           /\ pc = "done" => ResultTexts = <<text.v>>

\* C15: merge_small_chunks is idempotent.  Called again on what it returned,
\* with the same legal min_chunk_size, it returns chunks equal to the ones of
\* the first call in text, chunk_index, total_chunks and metadata.
C15_MergeIdempotent ==
    mpc = "again" =>
        /\ merge_error = ""
        /\ View(merged_chunks, heap) = first_merged

C15_Witness ==
    /\ mpc = "again"
    /\ Len(merged_chunks) >= 2
    /\ HasMetadata(merged_chunks[1])
    /\ "merged" \in DOMAIN heap[merged_chunks[1].metadata]
    /\ Len(merged_chunks[Len(merged_chunks)].text) < min_chunk_size

\* C16: for a legal min_chunk_size, merge_small_chunks returns without raising
\* a list no longer than its input, and a non-empty list when its input is
\* non-empty.
LegalMinSize == 0 < min_chunk_size /\ min_chunk_size <= self.chunk_size

C16_MergeNeverLonger ==
    (mpc # "idle" /\ LegalMinSize) =>
        /\ mpc # "raised"
        /\ Len(merged_chunks) <= Len(merge_chunks)
        /\ merge_chunks # <<>> => merged_chunks # <<>>

C16_Witness ==
    /\ mpc = "merged" /\ LegalMinSize
    /\ Len(merge_chunks) = 3
    /\ Len(merged_chunks) = 2

\* The ways to cut a list of n chunks into contiguous runs: a set of
\* positions after which a run ends, and the runs [lo, hi] it gives, in order.
Cuts(n) == SUBSET (1..(n - 1))

Runs(n, cut) ==
    LET ends == cut \cup {n}
        nth(j) == CHOOSE e \in ends : Cardinality({x \in ends : x <= e}) = j
    IN  [j \in 1..Cardinality(ends) |->
            [lo |-> IF j = 1 THEN 1 ELSE nth(j - 1) + 1, hi |-> nth(j)]]

\* The texts of input chunks lo..hi joined by newlines.
JoinRun(lo, hi) ==
    Join(<<NL>>, [k \in 1..(hi - lo + 1) |-> merge_chunks[lo + k - 1].text])

Returned == mpc \in {"merged", "again"} /\ merge_chunks # <<>>

MergedFromRuns(runs) ==
    /\ Len(merged_chunks) = Len(runs)
    /\ \A j \in 1..Len(runs) : merged_chunks[j].text = JoinRun(runs[j].lo, runs[j].hi)

\* Every proper prefix of a run is shorter than min_chunk_size, and every run
\* but the last is not.
ShortUntilFlushed(runs) ==
    \A j \in 1..Len(runs) :
        /\ \A p \in runs[j].lo..(runs[j].hi - 1) :
              Len(JoinRun(runs[j].lo, p)) < min_chunk_size
        /\ j < Len(runs) => Len(JoinRun(runs[j].lo, runs[j].hi)) >= min_chunk_size

\* C17: merge_small_chunks absorbs the next chunk exactly while the
\* accumulator's text is shorter than min_chunk_size, whatever the size of the
\* chunk taken in, and always flushes the last accumulator: the output is the
\* input cut into runs such that every proper prefix of a run is shorter than
\* min_chunk_size and every run but the last is not.  Chunks of 10, 10, 80 and
\* 5 characters with min_chunk_size = 50 give exactly two chunks: the first
\* three merged, then the 5-character chunk.
C17_AbsorbWhileShort ==
    Returned =>
        /\ \E cut \in Cuts(Len(merge_chunks)) :
              LET runs == Runs(Len(merge_chunks), cut)
              IN  MergedFromRuns(runs) /\ ShortUntilFlushed(runs)
        /\ ([k \in 1..Len(merge_chunks) |-> Len(merge_chunks[k].text)] = <<10, 10, 80, 5>>
            /\ min_chunk_size = 50)
              => /\ Len(merged_chunks) = 2
                 /\ merged_chunks[1].text = JoinRun(1, 3)
                 /\ merged_chunks[2].text = merge_chunks[4].text

C17_Witness ==
    /\ mpc = "merged"
    /\ [k \in 1..Len(merge_chunks) |-> Len(merge_chunks[k].text)] = <<10, 10, 80, 5>>
    /\ min_chunk_size = 50
    /\ Len(merged_chunks) = 2
    /\ Len(merged_chunks[1].text) = 102

\* C18: merge_small_chunks called with min_chunk_size <= 0 or
\* min_chunk_size > chunk_size raises ValueError and returns nothing, for every
\* chunks argument, the empty list included.
C18_IllegalMinSizeRaises ==
    (mpc # "idle" /\ ~LegalMinSize) =>
        /\ mpc = "raised"
        /\ merge_error = "ValueError"
        /\ merged_chunks = <<>>

\* C19: merge_small_chunks loses no text.  The returned texts are the input
\* cut into contiguous runs that partition it, each run's texts joined by
\* newlines in input order; so all returned texts joined by newlines equal all
\* input texts joined by newlines.
C19_MergeKeepsText ==
    Returned =>
        /\ \E cut \in Cuts(Len(merge_chunks)) :
              MergedFromRuns(Runs(Len(merge_chunks), cut))
        /\ Join(<<NL>>, [j \in 1..Len(merged_chunks) |-> merged_chunks[j].text])
              = JoinRun(1, Len(merge_chunks))

C19_Witness ==
    /\ mpc = "merged"
    /\ Len(merge_chunks) = 3
    /\ Len(merged_chunks) = 1
    /\ merged_chunks[1].text = JoinRun(1, 3)

\* The runs merge_small_chunks cuts its input into (C17).
FlushRuns ==
    Runs(Len(merge_chunks),
         CHOOSE cut \in Cuts(Len(merge_chunks)) :
             ShortUntilFlushed(Runs(Len(merge_chunks), cut)))

\* Returned chunk j carries merged = true and merged_with = the chunk_index the
\* input chunk at position k came in with.
MarkedMergedWith(j, k) ==
    /\ HasMetadata(merged_chunks[j])
    /\ LET md == heap[merged_chunks[j].metadata]
       IN  /\ "merged" \in DOMAIN md /\ md["merged"] = TRUE
           /\ "merged_with" \in DOMAIN md
           /\ md["merged_with"] = merge_chunks[k].chunk_index

FromChunkText == pc = "done" /\ mpc = "merged" /\ merge_chunks # <<>>

\* C20, as claimed: of a chunk list produced by chunk_text, with or without
\* caller-supplied metadata, every returned chunk that absorbed at least one
\* other chunk carries metadata with merged = true and merged_with equal to
\* the input chunk_index of the chunk it absorbed last.
C20_MergedAlwaysMarked ==
    FromChunkText =>
        LET runs == FlushRuns
        IN  \A j \in 1..Len(runs) :
                runs[j].hi > runs[j].lo => MarkedMergedWith(j, runs[j].hi)

\* C20, amended: a returned chunk has a metadata entry exactly when the first
\* chunk of its run has one, and a returned chunk that absorbed at least one
\* other chunk carries merged = true and merged_with equal to the input
\* chunk_index of the chunk it absorbed last when both the first chunk of its
\* run and that last chunk have a metadata entry.  The chunks of a list
\* produced by chunk_text have one exactly when the caller supplied a
\* non-empty metadata mapping.
C20_MergedMarkedWhenMetadata ==
    /\ Returned =>
          LET runs == FlushRuns
          IN  \A j \in 1..Len(runs) :
                  LET lo == runs[j].lo
                      hi == runs[j].hi
                  IN  /\ HasMetadata(merged_chunks[j]) <=> HasMetadata(merge_chunks[lo])
                      /\ (hi > lo /\ HasMetadata(merge_chunks[lo])
                                  /\ HasMetadata(merge_chunks[hi]))
                            => MarkedMergedWith(j, hi)
    /\ FromChunkText =>
          \A k \in 1..Len(merge_chunks) : HasMetadata(merge_chunks[k]) <=> Truthy(metadata)

C20_Witness ==
    /\ FromChunkText /\ Truthy(metadata)
    /\ Len(merged_chunks) < Len(merge_chunks)
    /\ MarkedMergedWith(1, FlushRuns[1].hi)

\* C21: copy-on-attach.  After chunk_text and merge_small_chunks no two chunk
\* records hold the same metadata dict: the chunks of a result hold distinct
\* dicts, no returned chunk of merge_small_chunks holds the dict of a chunk it
\* was given, and so the chunks given to merge_small_chunks still read as
\* chunk_text returned them, each with a copy of the caller's mapping.
C21_CopyOnAttach ==
    /\ \A j, k \in 1..Len(result) :
          (j # k /\ HasMetadata(result[j]) /\ HasMetadata(result[k]))
              => result[j].metadata # result[k].metadata
    /\ mpc \in {"merged", "again"} =>
          \A j \in 1..Len(merged_chunks) : \A k \in 1..Len(merge_chunks) :
              (HasMetadata(merged_chunks[j]) /\ HasMetadata(merge_chunks[k]))
                  => merged_chunks[j].metadata # merge_chunks[k].metadata
    /\ (pc = "done" /\ mpc = "merged") =>
          \A k \in 1..Len(result) :
              HasMetadata(result[k]) => heap[result[k].metadata] = metadata.v

\* Chunk k of the list given to extract_metadata_from_chunks has `key` in its
\* metadata.
HasKey(k, key) ==
    HasMetadata(extract_chunks[k]) /\ key \in DOMAIN extract_chunks[k].metadata

\* The distinct values of `key` over the chunks, in order of first appearance.
DistinctValues(key) ==
    LET first == {k \in 1..Len(extract_chunks) :
                     /\ HasKey(k, key)
                     /\ \A j \in 1..(k - 1) :
                           HasKey(j, key) => extract_chunks[j].metadata[key]
                                                 # extract_chunks[k].metadata[key]}
        nth(n) == CHOOSE k \in first : Cardinality({x \in first : x <= k}) = n
    IN  [n \in 1..Cardinality(first) |-> extract_chunks[nth(n)].metadata[key]]

\* C22: extract_metadata_from_chunks returns a mapping whose keys are the
\* metadata keys of the chunks other than chunk_index, total_chunks, merged and
\* merged_with; a key with the same value in every chunk that has it maps to
\* that value, a key with differing values maps to the list of its distinct
\* values in order of first appearance; an empty list gives an empty mapping.
C22_ConsolidatedMetadata ==
    pc = "extracted" =>
        /\ DOMAIN consolidated
              = {key \in {"source", "page", "merged"} \cup SkippedKeys :
                    \E k \in 1..Len(extract_chunks) : HasKey(k, key)} \ SkippedKeys
        /\ \A key \in DOMAIN consolidated :
              LET d == DistinctValues(key)
              IN  IF Len(d) = 1
                  THEN ~consolidated[key].islist /\ consolidated[key].v = d[1]
                  ELSE consolidated[key].islist /\ consolidated[key].v = d
        /\ extract_chunks = <<>> => DOMAIN consolidated = {}

C22_Witness ==
    /\ pc = "extracted"
    /\ Len(extract_chunks) = 3
    /\ HasKey(1, "merged")
    /\ DOMAIN consolidated = {"source", "page"}
    /\ consolidated["source"].islist /\ consolidated["source"].v = <<"web", "doc">>
    /\ HasKey(3, "source") /\ extract_chunks[3].metadata["source"] = "web"
    /\ ~consolidated["page"].islist
\* ---- C23 ----
\* get_chunk_with_context called with a chunk_index that is negative, or
\* at or past the end of the list, or with an empty list, returns the empty
\* chunk: empty text and empty metadata, never the text of a chunk.
C23_OutOfRangeIndexRefused ==
    (pc = "context" /\ (ctx_index < 0 \/ ctx_index >= Len(ctx_chunks)))
        => context.text = <<>> /\ context.metadata = <<>>

\* A call with the index just past the end of a non-empty list.
C23_Witness ==
    /\ pc = "context"
    /\ ctx_chunks # <<>>
    /\ ctx_index = Len(ctx_chunks)
    /\ context.text = <<>>

\* ---- C24 ----
\* The markers with the given texts between them, or nothing for no texts.
Marked(open, texts, close) ==
    IF texts = <<>> THEN <<>> ELSE open \o Join(<<SP>>, texts) \o close

\* The metadata keys of a chunk the span chunker builds.
SpanKeys == {"chunk_index", "start_char", "end_char"}

\* For a valid index k in n chunks and a window w, the returned text is the
\* target's text with the min(w, k) chunks before it, in order, between the
\* CONTEXT_BEFORE markers in front and the min(w, n-1-k) chunks after it, in
\* order, between the CONTEXT_AFTER markers behind; context_chunks_before and
\* context_chunks_after list those indices; has_context says whether there is
\* any; and the chunks passed in still carry only their own metadata.
C24_WindowAroundTarget ==
    (pc = "context" /\ ctx_index >= 0 /\ ctx_index < Len(ctx_chunks)) =>
        LET n == Len(ctx_chunks)
            k == ctx_index
            nb == Min2(context_window, k)
            na == Min2(context_window, n - 1 - k)
            before == [j \in 1..nb |-> k - nb + j - 1]
            after == [j \in 1..na |-> k + j]
        IN  /\ context.text =
                  Marked(ContextBeforeOpen,
                         [j \in 1..nb |-> ctx_chunks[before[j] + 1].text],
                         ContextBeforeClose)
                  \o ctx_chunks[k + 1].text
                  \o Marked(ContextAfterOpen,
                            [j \in 1..na |-> ctx_chunks[after[j] + 1].text],
                            ContextAfterClose)
            /\ context.metadata.context_chunks_before = before
            /\ context.metadata.context_chunks_after = after
            /\ context.metadata.has_context = (nb > 0 \/ na > 0)
            /\ context.metadata.context_window = context_window
            /\ \A key \in SpanKeys :
                  context.metadata[key] = ctx_chunks[k + 1].metadata[key]
            /\ \A j \in 1..n : DOMAIN ctx_chunks[j].metadata = SpanKeys
            /\ (ctx_chunks \in CtxHandBuilt \/ ctx_chunks = result)

\* The middle of three chunks with a window of two: one chunk on each side,
\* the window cut short at both ends of the list.
C24_Witness ==
    /\ pc = "context"
    /\ Len(ctx_chunks) = 3
    /\ ctx_index = 1
    /\ context_window = 2
    /\ context.metadata.context_chunks_before = <<0>>
    /\ context.metadata.context_chunks_after = <<2>>
    /\ context.metadata.has_context

\* ---- C25 ----
\* _retry_api_call has ended.
RetryEnded == pc \in {"returned", "failed"}

\* Every invocation so far raised.
AllFailed == \A j \in 1..Len(calls) : ~calls[j].ok

\* A call of _retry_api_call in which func was invoked and raised every
\* time ends having invoked it exactly max_retries times and slept exactly
\* max_retries - 1 times, none of them after the last invocation, and raises
\* the exception of the last invocation.
C25_AllFailRaisesLast ==
    (RetryEnded /\ calls # <<>> /\ AllFailed) =>
        /\ Len(calls) = client.max_retries
        /\ Len(sleeps) = client.max_retries - 1
        /\ outcome = [kind |-> "raise", v |-> calls[Len(calls)].v]

\* Three failures, the first and the last with different exceptions: two
\* sleeps, and the last exception is the one raised.
C25_Witness ==
    /\ pc = "failed"
    /\ Len(calls) = 3
    /\ calls[1].v # calls[3].v
    /\ Len(sleeps) = 2
    /\ outcome.v = calls[3].v

\* ---- C26 ----
\* The delay slept after the failure of attempt j (counted from 0).
DelayAfter(j) ==
    Min2(client.max_retry_delay,
         client.initial_retry_delay * Pow(client.retry_multiplier, j))

\* A call in which func raised k times and then returned: k + 1 invocations,
\* all with the arguments given, only the last one successful, its value
\* returned; k sleeps, the j-th of the delay above and none over
\* max_retry_delay.
SucceedsAfterFailures ==
    pc = "returned" =>
        LET k == Len(calls) - 1
        IN  /\ k >= 0 /\ k < client.max_retries
            /\ \A j \in 1..k : ~calls[j].ok
            /\ calls[k + 1].ok
            /\ \A j \in 1..(k + 1) : calls[j].args = retry_args
            /\ outcome = [kind |-> "return", v |-> calls[k + 1].v]
            /\ Len(sleeps) = k
            /\ \A j \in 1..k : sleeps[j] = DelayAfter(j - 1)
            /\ \A j \in 1..k : sleeps[j] <= client.max_retry_delay

\* No invocation ever follows a successful one.
NoCallAfterSuccess == \A j \in 1..(Len(calls) - 1) : ~calls[j].ok

\* The delays slept so far never decrease.
NonDecreasing == \A j \in 1..(Len(sleeps) - 1) : sleeps[j] <= sleeps[j + 1]

\* As stated: after k failures and a success the function was invoked k + 1
\* times with the same arguments, its value is returned, nothing is called
\* after the success, and the k delays follow the backoff formula, never
\* exceed max_retry_delay and never decrease.
C26_BackoffNonDecreasing ==
    /\ SucceedsAfterFailures
    /\ NoCallAfterSuccess
    /\ pc = "returned" => NonDecreasing

\* Amended: the same, with the delays non-decreasing when retry_multiplier
\* is at least 1.
C26_BackoffFollowsFormula ==
    /\ SucceedsAfterFailures
    /\ NoCallAfterSuccess
    /\ (pc = "returned" /\ client.retry_multiplier >= 1) => NonDecreasing

\* Two failures and a success under the default delays of 1 and 2 seconds.
C26_Witness ==
    /\ pc = "returned"
    /\ Len(calls) = 3
    /\ sleeps = <<1, 2>>
    /\ outcome.v = "success"

\* ---- C30 ----
\* As stated: whatever max_retries is, a call that has ended invoked func at
\* least once, and what it returned is a value func returned, or what it
\* raised is an exception func raised.
C30_OutcomeIsTheFunctions ==
    RetryEnded =>
        /\ calls # <<>>
        /\ \E j \in 1..Len(calls) :
              /\ calls[j].v = outcome.v
              /\ calls[j].ok = (outcome.kind = "return")

\* ---- C27 ----
\* The span chunker has returned the chunks of a non-empty text.
SpanReturned == impl = "span" /\ pc = "done" /\ Truthy(text)

StartChar(k) == result[k].metadata.start_char
EndChar(k) == result[k].metadata.end_char

C28_PackedWithinChunkSize ==
    (PackingWithoutOverlap /\ self.chunk_strategy = "paragraph" /\ pc = "done") =>
        \A k \in 1..Len(result) :
            Len(result[k].text) > self.chunk_size
                => \E j \in 1..Len(Units) : result[k].text = Units[j]

\* ---- C29 ----
\* As stated: for either setting of respect_semantic_boundaries and any
\* 0 <= chunk_overlap < chunk_size, zero included, consecutive chunks of the
\* span chunker share at most chunk_overlap characters.
C29_OverlapAtMostConfigured ==
    SpanReturned =>
        \A k \in 1..(Len(result) - 1) :
            EndChar(k) - StartChar(k + 1) <= self.chunk_overlap

====
